---- MODULE Spec2Model ----
(***************************************************************************)
(* Smart Finder (src/app.py): keyword matcher, standards search, answer    *)
(* adapter and the per-interaction document pipeline.                      *)
(*                                                                         *)
(* Text is a sequence of one-character strings.  A page mapping (a Python  *)
(* dict {1: t1, 2: t2, ...}, always filled in key order by the extractors) *)
(* is the sequence <<t1, t2, ...>>.                                        *)
(***************************************************************************)
EXTENDS Integers, Sequences, FiniteSets, TLC

\* ------------------------------------------------------------------------
\* Characters and the str methods the program uses
\* ------------------------------------------------------------------------

NL == "\n"

FF == "\f"

Whitespace == {" ", NL, FF}

UpperLetters == <<"A", "B", "C", "D", "F", "O", "P", "X">>
LowerLetters == <<"a", "b", "c", "d", "f", "o", "p", "x">>

\* str.lower() on one character of the modelled alphabet
LowerChar(c) ==
  IF \E i \in 1..Len(UpperLetters) : UpperLetters[i] = c
    THEN LowerLetters[CHOOSE i \in 1..Len(UpperLetters) : UpperLetters[i] = c]
    ELSE c

\* str.lower()
Lower(s) == [i \in 1..Len(s) |-> LowerChar(s[i])]

RECURSIVE LStrip(_)
LStrip(s) ==
  IF s # <<>> /\ Head(s) \in Whitespace THEN LStrip(Tail(s)) ELSE s

RECURSIVE RStrip(_)
RStrip(s) ==
  IF s # <<>> /\ s[Len(s)] \in Whitespace
    THEN RStrip(SubSeq(s, 1, Len(s) - 1))
    ELSE s

\* str.strip()
Strip(s) == RStrip(LStrip(s))

\* s[a:b] for 0 <= a, b <= len(s)   (0-based, end exclusive)
Slice(s, a, b) == SubSeq(s, a + 1, b)

\* does k start at 0-based index i of t
MatchAt(t, k, i) ==
  /\ i + Len(k) <= Len(t)
  /\ \A j \in 1..Len(k) : t[i + j] = k[j]

\* k in t
Contains(t, k) == \E i \in 0..Len(t) : MatchAt(t, k, i)

\* t.find(k): left-to-right scan, -1 when absent
RECURSIVE FindFrom(_, _, _)
FindFrom(t, k, i) ==
  IF i + Len(k) > Len(t) THEN -1
  ELSE IF MatchAt(t, k, i) THEN i
  ELSE FindFrom(t, k, i + 1)

\* faulty variant: reports the last occurrence (rfind)
RECURSIVE RFindFrom(_, _, _)
RFindFrom(t, k, i) ==
  IF i < 0 THEN -1
  ELSE IF MatchAt(t, k, i) THEN i
  ELSE RFindFrom(t, k, i - 1)

FindLast(t, k) == RFindFrom(t, k, Len(t) - Len(k))

Find(t, k) == FindFrom(t, k, 0)

\* s.replace("\n", " ")
ReplaceNL(s) == [i \in 1..Len(s) |-> IF s[i] = NL THEN " " ELSE s[i]]

Max(a, b) == IF a >= b THEN a ELSE b
Min(a, b) == IF a <= b THEN a ELSE b

\* ------------------------------------------------------------------------
\* 5. Keyword matcher
\* ------------------------------------------------------------------------

Lookback == 40
Lookahead == 60

\* faulty variant: the lookback is one character too long
SnippetStartWide(start) == Max(0, start - Lookback - 1)

SnippetStart(start) == Max(0, start - Lookback)
SnippetEnd(text, end) == Min(Len(text), end + Lookahead)

\* the body of the loop for a page that holds k
SnippetOf(text, k) ==
  LET start == Find(Lower(text), k)
      end == start + Len(k)
  IN ReplaceNL(Slice(text, SnippetStart(start), SnippetEnd(text, end)))

\* the loop over pages.items(), from page number n on
RECURSIVE ScanPages(_, _, _)
ScanPages(k, pages, n) ==
  IF n > Len(pages) THEN <<>>
  ELSE (IF Contains(Lower(pages[n]), k)
          THEN << <<n, SnippetOf(pages[n], k)>> >>
          ELSE <<>>)
       \o ScanPages(k, pages, n + 1)

Normalize(keyword) == Strip(Lower(keyword))

search_keyword_in_pages(keyword, pages) ==
  LET k == Normalize(keyword)
  IN IF k = <<>> THEN <<>> ELSE ScanPages(k, pages, 1)


\* ------------------------------------------------------------------------
\* 6. Standards search (SerpAPI)
\* ------------------------------------------------------------------------

\* a key the JSON object does not hold
Absent == "<absent>"
\* JSON null
Null == "<null>"

\* dict.get(key, default) on a field of a decoded JSON object
Get(value, default) == IF value = Absent THEN default ELSE value

\* Python truthiness of a link value
Truthy(link) == link # "" /\ link # Null

\* (title, snippet, link) appended for one organic_results item
ItemTriple(item) ==
  <<Get(item.title, "No title"), Get(item.snippet, ""), Get(item.link, "No link")>>

RECURSIVE Triples(_)
Triples(items) ==
  IF items = <<>> THEN <<>> ELSE <<ItemTriple(Head(items))>> \o Triples(Tail(items))

\* data.get("organic_results", []) on the decoded body
OrganicResults(data) == IF data.has_organic THEN data.organic_results ELSE <<>>

LinksOf(entries) == {entries[i][3] : i \in 1..Len(entries)}

\* faulty variant: a later duplicate overwrites the entry stored for its link
RECURSIVE DedupOverwrite(_, _)
DedupOverwrite(results, unique) ==
  IF results = <<>> THEN unique
  ELSE LET r == Head(results)
       IN IF ~Truthy(r[3]) THEN DedupOverwrite(Tail(results), unique)
          ELSE IF r[3] \in LinksOf(unique)
            THEN DedupOverwrite(Tail(results),
                   [i \in 1..Len(unique) |->
                      IF unique[i][3] = r[3] THEN r ELSE unique[i]])
            ELSE DedupOverwrite(Tail(results), Append(unique, r))

\* faulty variant: the link is not tested for emptiness
RECURSIVE DedupKeepEmpty(_, _)
DedupKeepEmpty(results, unique) ==
  IF results = <<>> THEN unique
  ELSE LET r == Head(results)
       IN IF r[3] \notin LinksOf(unique)
            THEN DedupKeepEmpty(Tail(results), Append(unique, r))
            ELSE DedupKeepEmpty(Tail(results), unique)

\* the loop filling `unique`; a dict keeps insertion order, so list(unique.values())
\* is the sequence built here
RECURSIVE Dedup(_, _)
Dedup(results, unique) ==
  IF results = <<>> THEN unique
  ELSE LET r == Head(results)
       IN IF Truthy(r[3]) /\ r[3] \notin LinksOf(unique)
            THEN Dedup(Tail(results), Append(unique, r))
            ELSE Dedup(Tail(results), unique)

\* faulty variant: the except handler hands back what was collected so far
SearchFailedPartial(results) == Dedup(results, <<>>)

\* value returned by the except handler
SearchFailed(results) == <<>>

\* the two URLs, in the order of the list `urls`
SearchUrls(keyword) ==
  << [q |-> <<keyword, " site:ieeexplore.ieee.org OR site:iec.ch OR site:sni.or.id OR site:nema.org">>],
     [q |-> <<"standardisasi terkait ", keyword>>] >>

\* ------------------------------------------------------------------------
\* 7. Answer adapter (Groq, primary model then fallback)
\* ------------------------------------------------------------------------

GROQ_PRIMARY_MODEL == "llama-3.3-70b-versatile"
GROQ_FALLBACK_MODEL == "llama-3.1-8b-instant"

Raise(msg) == [raised |-> TRUE, value |-> msg]
Return(v) == [raised |-> FALSE, value |-> v]

\* call_groq before the request is sent: the key check
CallGroqNoKey == Raise(<<"GROQ_API_KEY belum diatur. Isi dulu di Secrets atau .env.">>)

\* call_groq from the response of requests.post on.  resp.error is "absent",
\* "object" (with resp.message, possibly Absent) or "not_object"; resp.choices is
\* "absent", "empty", "null_content" or "content" (with resp.content)
CallGroqOn(resp) ==
  CASE resp.kind = "transport" -> Raise(<<"ConnectionError">>)
    [] resp.kind = "not_json" -> Raise(<<"JSONDecodeError">>)
    [] resp.error = "not_object" -> Raise(<<"AttributeError">>)
    [] resp.error = "object" ->
         Raise(<<Get(resp.message, "Error tidak dikenal dari Groq.")>>)
    [] resp.choices = "absent" -> Raise(<<"KeyError">>)
    [] resp.choices = "empty" -> Raise(<<"IndexError">>)
    [] resp.choices = "null_content" -> Raise(<<"AttributeError">>)
    [] OTHER -> Return(Strip(resp.content))

\* faulty variant: the failure of the fallback model is not caught
AfterFallbackUncaught(out) == out

\* inner try/except of query_openai
AfterFallback(out) ==
  IF out.raised
    THEN Return(<<"Model fallback juga gagal: ">> \o out.value)
    ELSE out

\* outer try/except of query_openai: is the except branch taken
NeedsFallback(out) == out.raised


\* ------------------------------------------------------------------------
\* 4. Text extractors
\* ------------------------------------------------------------------------

Digits == <<"0", "1", "2", "3", "4", "5", "6", "7", "8", "9">>

\* str(n) for n >= 0
RECURSIVE Str(_)
Str(n) == IF n < 10 THEN <<Digits[n + 1]>> ELSE Str(n \div 10) \o <<Digits[(n % 10) + 1]>>

\* sep.join(parts)
RECURSIVE Join(_, _)
Join(sep, parts) ==
  IF parts = <<>> THEN <<>>
  ELSE IF Len(parts) = 1 THEN Head(parts)
  ELSE Head(parts) \o <<sep>> \o Join(sep, Tail(parts))

\* s.endswith(suffix)
EndsWith(s, suffix) ==
  /\ Len(s) >= Len(suffix)
  /\ SubSeq(s, Len(s) - Len(suffix) + 1, Len(s)) = suffix

\* os.path.splitext(name)[1]: from the last dot on, "" when there is no dot or
\* only leading ones
SplitExt(name) ==
  LET dots == {i \in 1..Len(name) : name[i] = "."}
      lead == {i \in 1..Len(name) : \A j \in 1..i : name[j] = "."}
  IN IF dots \subseteq lead THEN <<>>
     ELSE LET last == CHOOSE i \in dots : \A j \in dots : j <= i
          IN SubSeq(name, last, Len(name))

\* the path NamedTemporaryFile(suffix=suffix) gives its file number id
TempPath(id, suffix) == <<"/tmp/tmp">> \o Str(id) \o suffix

\* extract_text_from_docx: docx.Document(path) raises on a file it cannot open
extract_text_from_docx(doc) ==
  IF ~doc.opens THEN Raise(<<"docx_open">>)
  ELSE Return(<<Join(NL, doc.paragraphs)>>)

\* pdfminer's text of the whole document: every page ends with a form feed
RECURSIVE PdfMinerText(_)
PdfMinerText(text_pages) ==
  IF text_pages = <<>> THEN <<>>
  ELSE Head(text_pages) \o <<FF>> \o PdfMinerText(Tail(text_pages))

\* extract_text_from_pdf: fitz page by page, else pdfminer as page 1
extract_text_from_pdf(doc, has_pymupdf) ==
  IF ~doc.opens THEN Raise(<<"pdf_open">>)
  ELSE IF has_pymupdf THEN Return(doc.text_pages)
  ELSE Return(<<PdfMinerText(doc.text_pages)>>)

\* not any(pages.values())
NoText(pages) == \A i \in 1..Len(pages) : pages[i] = <<>>

\* pytesseract.image_to_string on one page image, then `text or ""`
OcrText(image) ==
  IF image.raises THEN Raise(<<"ocr_page">>) ELSE Return(image.text)

\* ------------------------------------------------------------------------
\* 9. Context assembly
\* ------------------------------------------------------------------------

\* f"Dokumen: {name}, Halaman {page_num}: {snippet}"
ContextLine(name, page_num, snippet) ==
  <<"Dokumen: ">> \o name \o <<", Halaman ">> \o Str(page_num) \o <<": ">> \o snippet

\* faulty variant: a document without a match still gets a line
ContextLinesAlways(name, found) ==
  IF found = <<>> THEN <<ContextLine(name, 0, <<>>)>>
  ELSE [m \in 1..Len(found) |-> ContextLine(name, found[m][1], found[m][2])]

\* the lines appended to context_parts for one document
RECURSIVE ContextLines(_, _)
ContextLines(name, found) ==
  IF found = <<>> THEN <<>>
  ELSE <<ContextLine(name, Head(found)[1], Head(found)[2])>>
       \o ContextLines(name, Tail(found))


\* ------------------------------------------------------------------------
\* Inputs
\* ------------------------------------------------------------------------

MaxPages == 2
MaxItems == 2
MaxFiles == 2
MaxTmp == 2

\* filler text that holds no letter of a keyword; the character depends on
\* the position, so that two windows at different offsets differ
Fill(n) == [i \in 1..n |-> <<"x", NL, "y", " ", "z">>[(i % 5) + 1]]

PadBefore == {0, 39, 41}
PadAfter == {0, 59, 61}

\* page texts of the matcher's inputs: one or two occurrences of "ab" (in
\* varying case) at varying distances from both ends, and pages without any
MatchTexts ==
  { Fill(p) \o <<"a", "B">> \o Fill(q) : p \in PadBefore, q \in PadAfter }
  \cup { Fill(p) \o <<"A", "b">> \o Fill(2) \o <<"a", "b">> \o Fill(q) :
           p \in PadBefore, q \in PadAfter }
  \cup { <<>>, Fill(7) }

MatchKeywords ==
  { <<"a", "b">>, <<" ", "A", "B", NL>>, <<"B">>, <<"b", "a">>, <<>>, <<" ", NL>> }

PageMaps == UNION { [1..n -> MatchTexts] : n \in 1..MaxPages }

\* uploaded documents: what the libraries make of each
NoPage == [raises |-> FALSE, text |-> <<>>]

Doc(name, opens, paragraphs, text_pages, converts, ocr) ==
  [name |-> name, opens |-> opens, paragraphs |-> paragraphs,
   text_pages |-> text_pages, converts |-> converts, ocr |-> ocr]

DocReport ==
  Doc(<<"r", ".", "d", "o", "c", "x">>, TRUE,
      << <<"x", "a", "B">>, <<"a", "b">> >>, <<>>, FALSE, <<>>)
DocManual ==
  Doc(<<"m", ".", "P", "D", "F">>, TRUE, <<>>,
      << <<"x">>, <<"A", "b", " ", "b">> >>, FALSE, <<>>)
DocScan ==
  Doc(<<"s", ".", "p", "d", "f">>, TRUE, <<>>, << <<>>, <<>> >>, TRUE,
      << [raises |-> FALSE, text |-> <<"a", "b", NL>>], NoPage >>)
DocScanBadPage ==
  Doc(<<"t", ".", "p", "d", "f">>, TRUE, <<>>, << <<>>, <<>> >>, TRUE,
      << [raises |-> FALSE, text |-> <<"b", " ", "a">>],
         [raises |-> TRUE, text |-> <<>>] >>)
DocScanNoRaster ==
  Doc(<<"u", ".", "p", "d", "f">>, TRUE, <<>>, << <<>> >>, FALSE, <<>>)
DocCorruptPdf ==
  Doc(<<"c", ".", "p", "d", "f">>, FALSE, <<>>, <<>>, FALSE, <<>>)
DocCorruptDocx ==
  Doc(<<"k", ".", "d", "o", "c", "x">>, FALSE, <<>>, <<>>, FALSE, <<>>)
DocNotes ==
  Doc(<<"n", ".", "t", "x", "t">>, TRUE, <<>>, <<>>, FALSE, <<>>)

Documents ==
  { DocReport, DocManual, DocScan, DocScanBadPage, DocScanNoRaster,
    DocCorruptPdf, DocCorruptDocx, DocNotes }

Uploads == UNION { [1..n -> Documents] : n \in 0..MaxFiles }

Queries == { <<>>, <<"a", "b">>, <<" ", "B">> }

Tabs == { "Pencarian Dokumen", "Tanya Jawab" }


\* search results the API may send back
Item(title, link, snippet) == [title |-> title, link |-> link, snippet |-> snippet]

SearchItems ==
  { Item("T1", "u1", "s1"), Item("T2", "u1", "s2"), Item("T3", "u2", Absent),
    Item("T4", "", "s4"), Item("T5", Null, "s5"), Item(Absent, Absent, Absent) }

ItemLists == UNION { [1..n -> SearchItems] : n \in 0..MaxItems }

\* what one requests.get(url) followed by resp.json() comes to
SearchResponses ==
  { [kind |-> k, has_organic |-> FALSE, organic_results |-> <<>>] :
      k \in {"transport", "not_json", "not_object", "ok"} }
  \cup { [kind |-> "ok", has_organic |-> TRUE, organic_results |-> l] : l \in ItemLists }

\* what one requests.post to the chat endpoint followed by resp.json() comes to
GroqResponse(kind, error, message, choices, content) ==
  [kind |-> kind, error |-> error, message |-> message, choices |-> choices,
   content |-> content]

GroqResponses ==
  { GroqResponse("transport", "absent", Absent, "absent", <<>>),
    GroqResponse("not_json", "absent", Absent, "absent", <<>>),
    GroqResponse("json", "object", "model_decommissioned", "absent", <<>>),
    GroqResponse("json", "object", Absent, "absent", <<>>),
    GroqResponse("json", "not_object", Absent, "absent", <<>>),
    GroqResponse("json", "absent", Absent, "absent", <<>>),
    GroqResponse("json", "absent", Absent, "empty", <<>>),
    GroqResponse("json", "absent", Absent, "null_content", <<>>),
    GroqResponse("json", "absent", Absent, "content", <<" ", "y", "a", NL>>),
    GroqResponse("json", "absent", Absent, "content", <<"t", "i", "d", "a", "k">>) }

Keys == { "", "key" }

\* ------------------------------------------------------------------------
\* State
\* ------------------------------------------------------------------------

VARIABLES
  \* matcher called on its own
  m_pc, m_keyword, m_pages, m_found,
  \* search_internet_standard
  SERPAPI_API_KEY, s_pc, s_keyword, s_url, s_results, s_requests, s_received,
  s_notices, s_return,
  \* query_openai
  GROQ_API_KEY, q_pc, q_question, q_context, q_calls, q_posts, q_notices,
  q_return,
  \* the script run of one interaction
  HAS_PYMUPDF, pc, tab, uploaded_files, query, idx, temp_path, pages, images,
  ocr_i, ocr_result, found, results, context_parts, context, notices, error,
  called,
  \* the file system, and what this run created in it and read from it
  disk, tmpdirs, run_files, run_dirs, extracted

mvars == <<m_pc, m_keyword, m_pages, m_found>>
svars == <<SERPAPI_API_KEY, s_pc, s_keyword, s_url, s_results, s_requests,
           s_received, s_notices, s_return>>
qvars == <<GROQ_API_KEY, q_pc, q_question, q_context, q_calls, q_posts,
           q_notices, q_return>>
pvars == <<HAS_PYMUPDF, pc, tab, uploaded_files, query, idx, temp_path, pages,
           images, ocr_i, ocr_result, found, results, context_parts, context,
           notices, error, called, disk, tmpdirs, run_files, run_dirs,
           extracted>>
vars == <<mvars, svars, qvars, pvars>>

MatcherIdle ==
  /\ m_pc = "idle" /\ m_keyword = <<>> /\ m_pages = <<>> /\ m_found = <<>>

SearchIdle ==
  /\ SERPAPI_API_KEY = "" /\ s_pc = "idle" /\ s_keyword = <<>> /\ s_url = 0
  /\ s_results = <<>> /\ s_requests = <<>> /\ s_received = <<>>
  /\ s_notices = <<>> /\ s_return = <<>>

AnswerIdle ==
  /\ GROQ_API_KEY = "" /\ q_pc = "idle" /\ q_question = <<>> /\ q_context = <<>>
  /\ q_calls = <<>> /\ q_posts = <<>> /\ q_notices = <<>> /\ q_return = <<>>

\* the script's globals when a run starts (lines 270-290)
ScriptStart ==
  /\ idx = 0 /\ temp_path = <<>> /\ pages = <<>> /\ images = <<>>
  /\ ocr_i = 0 /\ ocr_result = <<>> /\ found = <<>> /\ results = <<>>
  /\ context_parts = <<>> /\ context = <<>> /\ notices = <<>>
  /\ error = "" /\ called = "none"

PipelineIdle ==
  /\ HAS_PYMUPDF = TRUE /\ pc = "idle" /\ tab = "Pencarian Dokumen"
  /\ uploaded_files = <<>> /\ query = <<>> /\ ScriptStart
  /\ disk = {} /\ tmpdirs = {} /\ run_files = {} /\ run_dirs = {}
  /\ extracted = <<>>

\* ------------------------------------------------------------------------
\* The matcher on its own
\* ------------------------------------------------------------------------

InitMatch ==
  /\ m_pc = "call"
  /\ m_keyword \in MatchKeywords
  /\ m_pages \in PageMaps
  /\ m_found = <<>>
  /\ SearchIdle /\ AnswerIdle /\ PipelineIdle

MatchCall ==
  /\ m_pc = "call"
  /\ m_found' = search_keyword_in_pages(m_keyword, m_pages)
  /\ m_pc' = "returned"
  /\ UNCHANGED <<m_keyword, m_pages, svars, qvars, pvars>>

NextMatch == MatchCall

SpecMatch == InitMatch /\ [][NextMatch]_vars


\* ------------------------------------------------------------------------
\* Properties of the matcher
\* ------------------------------------------------------------------------

\* t is s without its leading and trailing whitespace
IsTrimOf(t, s) ==
  \E a \in 1..(Len(s) + 1) : \E b \in 0..Len(s) :
    /\ t = SubSeq(s, a, b)
    /\ \A i \in 1..(a - 1) : s[i] \in Whitespace
    /\ \A i \in (b + 1)..Len(s) : s[i] \in Whitespace
    /\ (a <= b => s[a] \notin Whitespace /\ s[b] \notin Whitespace)
    /\ (a > b => \A i \in 1..Len(s) : s[i] \in Whitespace)

\* 0-based positions at which k occurs in t
Occurrences(t, k) ==
  {i \in 0..(Len(t) - Len(k)) : SubSeq(t, i + 1, i + Len(k)) = k}

Lowest(S) == CHOOSE i \in S : \A j \in S : i <= j

\* the Lookback/Lookahead window of text around the occurrence of k at `start`,
\* newlines shown as spaces
WindowAt(text, k, start) ==
  LET a == IF start - Lookback < 0 THEN 0 ELSE start - Lookback
      b == IF start + Len(k) + Lookahead > Len(text)
             THEN Len(text) ELSE start + Len(k) + Lookahead
  IN [i \in 1..(b - a) |-> IF text[a + i] = NL THEN " " ELSE text[a + i]]

HitsOn(n) == {j \in 1..Len(m_found) : m_found[j][1] = n}

\* C1: the matcher returns at most one (page, snippet) pair per page; a page
\* has its pair exactly when the trimmed, lower-cased (non-empty) keyword
\* occurs in its lower-cased text, and the snippet is the window around the
\* lowest-index occurrence
C1_OnePairPerPageFirstOccurrence ==
  m_pc = "returned" =>
    \E k \in {SubSeq(Lower(m_keyword), a, b) :
                a \in 1..(Len(m_keyword) + 1), b \in 0..Len(m_keyword)} :
      /\ IsTrimOf(k, Lower(m_keyword))
      /\ \A j \in 1..Len(m_found) : m_found[j][1] \in 1..Len(m_pages)
      /\ \A n \in 1..Len(m_pages) :
           LET occ == Occurrences(Lower(m_pages[n]), k)
           IN /\ Cardinality(HitsOn(n)) <= 1
              /\ (HitsOn(n) # {}) <=> (k # <<>> /\ occ # {})
              /\ \A j \in HitsOn(n) :
                   m_found[j][2] = WindowAt(m_pages[n], k, Lowest(occ))

\* a page with two occurrences is reported once, next to a page without any
C1_Witness ==
  /\ m_pc = "returned"
  /\ Len(m_pages) = 2
  /\ Len(m_found) = 1
  /\ \E n \in 1..2 :
       /\ m_found[1][1] = n
       /\ Cardinality(Occurrences(Lower(m_pages[n]), Normalize(m_keyword))) = 2

\* C2: no snippet holds a newline; a snippet is no longer than the keyword plus
\* Lookback + Lookahead; the slice it is cut from starts at max(0, start-40),
\* ends at min(len(text), start+len(k)+60) and lies inside the page text
C2_SnippetBounds ==
  m_pc = "returned" =>
    \A j \in 1..Len(m_found) :
      LET text == m_pages[m_found[j][1]]
          s == m_found[j][2]
          k == Normalize(m_keyword)
          start == Lowest(Occurrences(Lower(text), k))
          a == Max(0, start - Lookback)
          b == Min(Len(text), start + Len(k) + Lookahead)
      IN /\ \A i \in 1..Len(s) : s[i] # NL
         /\ Len(s) <= Lookback + Lookahead + Len(k)
         /\ Len(s) <= Lookback + Lookahead + Len(m_keyword)
         /\ 0 <= a /\ a <= b /\ b <= Len(text)
         /\ Len(s) = b - a

\* a snippet of full width, cut from text that holds newlines, clipped at
\* neither end
C2_Witness ==
  /\ m_pc = "returned"
  /\ \E j \in 1..Len(m_found) :
       LET text == m_pages[m_found[j][1]]
           k == Normalize(m_keyword)
       IN /\ Len(m_found[j][2]) = Lookback + Lookahead + Len(k)
          /\ Len(text) > Len(m_found[j][2]) + 1
          /\ \E i \in 1..Len(text) : text[i] = NL


\* ------------------------------------------------------------------------
\* search_internet_standard, statement by statement
\* ------------------------------------------------------------------------

InitSearch ==
  /\ SERPAPI_API_KEY \in Keys
  /\ s_pc = "call"
  /\ s_keyword \in Queries \ {<<>>}
  /\ s_url = 0 /\ s_results = <<>> /\ s_requests = <<>> /\ s_received = <<>>
  /\ s_notices = <<>> /\ s_return = <<>>
  /\ MatcherIdle /\ AnswerIdle /\ PipelineIdle

\* lines 154-156: no credential, st.info and an empty list
SearchUnconfigured ==
  /\ s_pc = "call"
  /\ SERPAPI_API_KEY = ""
  /\ s_notices' = Append(s_notices, "info")
  /\ s_return' = <<>>
  /\ s_pc' = "returned"
  /\ UNCHANGED <<SERPAPI_API_KEY, s_keyword, s_url, s_results, s_requests,
                 s_received, mvars, qvars, pvars>>

\* lines 158-168: the URLs and the empty result list
SearchBegin ==
  /\ s_pc = "call"
  /\ SERPAPI_API_KEY # ""
  /\ s_url' = 1
  /\ s_results' = <<>>
  /\ s_pc' = "loop"
  /\ UNCHANGED <<SERPAPI_API_KEY, s_keyword, s_requests, s_received, s_notices,
                 s_return, mvars, qvars, pvars>>

\* lines 171-179: one request whose body is decoded and whose items are appended
SearchRequestOk ==
  /\ s_pc = "loop"
  /\ s_url <= Len(SearchUrls(s_keyword))
  /\ \E resp \in SearchResponses :
       /\ resp.kind = "ok"
       /\ s_requests' = Append(s_requests, SearchUrls(s_keyword)[s_url])
       /\ s_received' = Append(s_received, resp)
       /\ s_results' = s_results \o Triples(OrganicResults(resp))
  /\ s_url' = s_url + 1
  /\ UNCHANGED <<SERPAPI_API_KEY, s_pc, s_keyword, s_notices, s_return,
                 mvars, qvars, pvars>>

\* lines 172-173, 175 raising, then lines 180-182: st.error and the handler's value
SearchRequestFails ==
  /\ s_pc = "loop"
  /\ s_url <= Len(SearchUrls(s_keyword))
  /\ \E resp \in SearchResponses :
       /\ resp.kind # "ok"
       /\ s_requests' = Append(s_requests, SearchUrls(s_keyword)[s_url])
       /\ s_received' = Append(s_received, resp)
  /\ s_notices' = Append(s_notices, "error")
  /\ s_return' = SearchFailed(s_results)
  /\ s_pc' = "returned"
  /\ UNCHANGED <<SERPAPI_API_KEY, s_keyword, s_url, s_results, mvars, qvars, pvars>>

\* lines 184-190: both requests done, duplicates removed
SearchReturn ==
  /\ s_pc = "loop"
  /\ s_url > Len(SearchUrls(s_keyword))
  /\ s_return' = Dedup(s_results, <<>>)
  /\ s_pc' = "returned"
  /\ UNCHANGED <<SERPAPI_API_KEY, s_keyword, s_url, s_results, s_requests,
                 s_received, s_notices, mvars, qvars, pvars>>

NextSearch ==
  \/ SearchUnconfigured
  \/ SearchBegin
  \/ SearchRequestOk
  \/ SearchRequestFails
  \/ SearchReturn

SpecSearch == InitSearch /\ [][NextSearch]_vars


\* ------------------------------------------------------------------------
\* Properties of the standards search
\* ------------------------------------------------------------------------

RECURSIVE Flatten(_)
Flatten(seqs) == IF seqs = <<>> THEN <<>> ELSE Head(seqs) \o Flatten(Tail(seqs))

\* the items of the bodies received so far, in the order they came
ReceivedItems ==
  Flatten([i \in 1..Len(s_received) |->
             IF s_received[i].kind = "ok" /\ s_received[i].has_organic
               THEN s_received[i].organic_results ELSE <<>>])

SearchSucceeded ==
  /\ s_pc = "returned"
  /\ Len(s_received) = 2
  /\ \A i \in 1..2 : s_received[i].kind = "ok"

HasLink(item) == item.link \notin {Absent, "", Null}

\* the entry an item would be shown as
ShownAs(item) ==
  << IF item.title = Absent THEN "No title" ELSE item.title,
     IF item.snippet = Absent THEN "" ELSE item.snippet,
     IF item.link = Absent THEN "No link" ELSE item.link >>

\* C6, as stated: no returned entry comes from an item whose link is missing
\* or empty
C6_NoEntryWithoutLink ==
  s_pc = "returned" =>
    \A j \in 1..Len(s_return) :
      \E i \in 1..Len(ReceivedItems) :
        HasLink(ReceivedItems[i]) /\ s_return[j] = ShownAs(ReceivedItems[i])

\* C6, amended: no returned entry comes from an item whose link is present but
\* empty or null; an item without a link field is entered under the link
\* "No link", and the first such item is returned
C6_EmptyLinkDroppedMissingLinkKept ==
  s_pc = "returned" =>
    /\ \A j \in 1..Len(s_return) :
         /\ s_return[j][3] \notin {"", Null}
         /\ \E i \in 1..Len(ReceivedItems) :
              /\ ReceivedItems[i].link \notin {"", Null}
              /\ s_return[j] = ShownAs(ReceivedItems[i])
    /\ (SearchSucceeded /\ \E i \in 1..Len(ReceivedItems) : ReceivedItems[i].link = Absent)
         => \E j \in 1..Len(s_return) : s_return[j][3] = "No link"

\* a successful search that received an item with an empty link and one
\* without a link
C6_Witness ==
  /\ SearchSucceeded
  /\ \E i \in 1..Len(ReceivedItems) : ReceivedItems[i].link = ""
  /\ \E i \in 1..Len(ReceivedItems) : ReceivedItems[i].link = Absent
  /\ \E j \in 1..Len(s_return) : s_return[j] = <<"No title", "", "No link">>

\* position in the merged list of the first item shown under link l
FirstWithLink(l) ==
  Lowest({i \in 1..Len(ReceivedItems) : ShownAs(ReceivedItems[i])[3] = l})

\* C7: after two answered queries the output holds exactly one entry per
\* distinct non-empty link, the first item met with that link (site-restricted
\* results first, each body in its order), in first-seen order
C7_OneEntryPerLinkFirstWins ==
  SearchSucceeded =>
    LET links == {ShownAs(ReceivedItems[i])[3] : i \in 1..Len(ReceivedItems)}
                   \ {"", Null}
    IN /\ {s_return[j][3] : j \in 1..Len(s_return)} = links
       /\ Len(s_return) = Cardinality(links)
       /\ \A j \in 1..Len(s_return) :
            s_return[j] = ShownAs(ReceivedItems[FirstWithLink(s_return[j][3])])
       /\ \A j1, j2 \in 1..Len(s_return) :
            j1 < j2 => FirstWithLink(s_return[j1][3]) < FirstWithLink(s_return[j2][3])
       /\ s_requests = SearchUrls(s_keyword)

\* the same link came back from both queries under different titles
C7_Witness ==
  /\ SearchSucceeded
  /\ \E i \in 1..Len(s_received[1].organic_results) :
       s_received[1].organic_results[i] = Item("T2", "u1", "s2")
  /\ \E i \in 1..Len(s_received[2].organic_results) :
       s_received[2].organic_results[i] = Item("T1", "u1", "s1")
  /\ Len(s_return) = 2
  /\ s_return[2] = <<"T2", "s2", "u1">>

\* C8: a failed query ends the search with an empty list and a reported error,
\* whatever was collected before; no query is sent twice, at most two are
\* sent, and none without a credential
C8_FailureAbortsSearch ==
  /\ Len(s_requests) <= 2
  /\ \A i \in 1..Len(s_requests) : s_requests[i] = SearchUrls(s_keyword)[i]
  /\ SERPAPI_API_KEY = "" => s_requests = <<>>
  /\ (s_pc = "returned" /\ SERPAPI_API_KEY = "")
       => s_return = <<>> /\ s_notices = <<"info">>
  /\ \A i \in 1..Len(s_received) :
       s_received[i].kind # "ok" =>
         /\ i = Len(s_received)
         /\ s_pc = "returned"
         /\ s_return = <<>>
         /\ s_notices = <<"error">>

\* the second query fails after the first one brought usable results
C8_Witness ==
  /\ s_pc = "returned"
  /\ Len(s_received) = 2
  /\ s_received[2].kind = "not_json"
  /\ \E j \in 1..Len(s_results) : s_results[j][3] = "u1"
  /\ s_return = <<>>


\* ------------------------------------------------------------------------
\* query_openai, call by call
\* ------------------------------------------------------------------------

AnswerContexts ==
  { <<>>, ContextLine(DocReport.name, 1, <<"x", "a", "B", " ", "a", "b">>) }

InitAnswer ==
  /\ GROQ_API_KEY \in Keys
  /\ q_pc = "call"
  /\ q_question \in Queries \ {<<>>}
  /\ q_context \in AnswerContexts
  /\ q_calls = <<>> /\ q_posts = <<>> /\ q_notices = <<>> /\ q_return = <<>>
  /\ MatcherIdle /\ SearchIdle /\ PipelineIdle

\* call_groq(model_name, question, context): the outcomes it can have and the
\* request it sends, if any
CallGroq(model_name, out, posts) ==
  IF GROQ_API_KEY = ""
    THEN out = CallGroqNoKey /\ posts = <<>>
    ELSE \E resp \in GroqResponses :
           /\ out = CallGroqOn(resp)
           /\ posts = << [model |-> model_name, question |-> q_question,
                          context |-> q_context, resp |-> resp] >>

GroqOutcomes ==
  {CallGroqNoKey} \cup {CallGroqOn(resp) : resp \in GroqResponses}

PostsOf(model_name) ==
  {<<>>} \cup { << [model |-> model_name, question |-> q_question,
                    context |-> q_context, resp |-> resp] >> :
                resp \in GroqResponses }

\* lines 255-259: the primary model; on an exception, the warning
QueryPrimary ==
  /\ q_pc = "call"
  /\ \E out \in GroqOutcomes : \E posts \in PostsOf(GROQ_PRIMARY_MODEL) :
       /\ CallGroq(GROQ_PRIMARY_MODEL, out, posts)
       /\ q_calls' = Append(q_calls, [model |-> GROQ_PRIMARY_MODEL, out |-> out])
       /\ q_posts' = q_posts \o posts
       /\ IF NeedsFallback(out)
            THEN /\ q_notices' = Append(q_notices, "warning")
                 /\ q_pc' = "fallback"
                 /\ UNCHANGED q_return
            ELSE /\ q_return' = out.value
                 /\ q_pc' = "returned"
                 /\ UNCHANGED q_notices
  /\ UNCHANGED <<GROQ_API_KEY, q_question, q_context, mvars, svars, pvars>>

\* lines 260-263: the fallback model; its exception becomes the returned text
QueryFallback ==
  /\ q_pc = "fallback"
  /\ \E out \in GroqOutcomes : \E posts \in PostsOf(GROQ_FALLBACK_MODEL) :
       /\ CallGroq(GROQ_FALLBACK_MODEL, out, posts)
       /\ q_calls' = Append(q_calls, [model |-> GROQ_FALLBACK_MODEL, out |-> out])
       /\ q_posts' = q_posts \o posts
       /\ q_return' = AfterFallback(out).value
       /\ q_pc' = IF AfterFallback(out).raised THEN "raised" ELSE "returned"
  /\ UNCHANGED <<GROQ_API_KEY, q_question, q_context, q_notices, mvars, svars, pvars>>

NextAnswer == QueryPrimary \/ QueryFallback

SpecAnswer == InitAnswer /\ [][NextAnswer]_vars

\* ------------------------------------------------------------------------
\* Properties of the answer adapter
\* ------------------------------------------------------------------------

\* the response carries no usable answer
BadResponse(resp) ==
  \/ resp.kind # "json"
  \/ resp.error # "absent"
  \/ resp.choices # "content"

\* the i-th call of call_groq failed
CallFailed(i) ==
  IF GROQ_API_KEY = "" THEN TRUE ELSE BadResponse(q_posts[i].resp)

\* C4: query_openai never raises; the primary model is called first, the
\* fallback exactly once and only after a failure of the primary; a fallback
\* success is what is returned, and two failures give an error text
C4_PrimaryThenFallbackNeverRaises ==
  /\ q_pc # "raised"
  /\ Len(q_calls) <= 2 /\ Len(q_posts) <= 2
  /\ Len(q_posts) = (IF GROQ_API_KEY = "" THEN 0 ELSE Len(q_calls))
  /\ \A i \in 1..Len(q_posts) : q_posts[i].model = q_calls[i].model
  /\ Len(q_calls) >= 1 => q_calls[1].model = GROQ_PRIMARY_MODEL
  /\ Len(q_calls) = 2 => q_calls[2].model = GROQ_FALLBACK_MODEL /\ CallFailed(1)
  /\ q_pc = "returned" =>
       /\ Len(q_calls) = (IF CallFailed(1) THEN 2 ELSE 1)
       /\ ~CallFailed(Len(q_calls)) =>
            IsTrimOf(q_return, q_posts[Len(q_calls)].resp.content)
       /\ CallFailed(Len(q_calls)) =>
            /\ Len(q_calls) = 2
            /\ Head(q_return) = "Model fallback juga gagal: "

\* the primary model reported an error and the fallback answered
C4_Witness ==
  /\ q_pc = "returned"
  /\ Len(q_posts) = 2
  /\ q_posts[1].resp.error = "object"
  /\ q_posts[2].resp.choices = "content"
  /\ q_return = <<"y", "a">>


\* ------------------------------------------------------------------------
\* One interaction: the script runs top to bottom
\* ------------------------------------------------------------------------

Init ==
  /\ HAS_PYMUPDF \in BOOLEAN
  /\ pc = "idle" /\ tab = "Pencarian Dokumen"
  /\ uploaded_files = <<>> /\ query = <<>> /\ ScriptStart
  /\ disk = {} /\ tmpdirs = {} /\ run_files = {} /\ run_dirs = {}
  /\ extracted = <<>>
  /\ MatcherIdle /\ SearchIdle /\ AnswerIdle

fsvars == <<disk, tmpdirs, run_files, run_dirs>>
widgets == <<HAS_PYMUPDF, tab, uploaded_files, query>>
others == <<mvars, svars, qvars>>

\* the file the loop is at
CurrentFile == uploaded_files[idx]

\* the name NamedTemporaryFile picks: one no existing file has
FreshTemp(suffix) ==
  LET free == {n \in 1..MaxTmp : TempPath(n, suffix)[2] \notin {p[2] : p \in disk}}
  IN TempPath(Lowest(free), suffix)

OcrDir == "/tmp/tmpdir"

\* an exception nothing catches ends the script run
Crash(what) ==
  /\ pc' = "crashed"
  /\ error' = what

\* the user changes a widget: the script starts over (lines 270-290)
Interact ==
  /\ pc \in {"idle", "done", "crashed"}
  /\ \E files \in Uploads, q \in Queries, t \in Tabs :
       /\ Cardinality(disk) + Len(files) <= MaxTmp
       /\ uploaded_files' = files
       /\ query' = q
       /\ tab' = t
  /\ idx' = 0 /\ temp_path' = <<>> /\ pages' = <<>> /\ images' = <<>>
  /\ ocr_i' = 0 /\ ocr_result' = <<>> /\ found' = <<>> /\ results' = <<>>
  /\ context_parts' = <<>> /\ context' = <<>> /\ notices' = <<>>
  /\ error' = "" /\ called' = "none"
  /\ run_files' = {} /\ run_dirs' = {} /\ extracted' = <<>>
  /\ pc' = "start"
  /\ UNCHANGED <<HAS_PYMUPDF, disk, tmpdirs, others>>

\* lines 296-299: files and a query are there
EnterPipeline ==
  /\ pc = "start"
  /\ uploaded_files # <<>> /\ query # <<>>
  /\ results' = <<>>
  /\ context_parts' = <<>>
  /\ idx' = 1
  /\ pc' = "loop"
  /\ UNCHANGED <<widgets, temp_path, pages, images, ocr_i, ocr_result, found,
                 context, notices, error, called, fsvars, extracted, others>>

\* line 296 false: nothing to process
SkipPipeline ==
  /\ pc = "start"
  /\ ~(uploaded_files # <<>> /\ query # <<>>)
  /\ pc' = "tabs"
  /\ UNCHANGED <<widgets, idx, temp_path, pages, images, ocr_i, ocr_result, found,
                 results, context_parts, context, notices, error, called,
                 fsvars, extracted, others>>

\* lines 302-305: the upload is copied to a temporary file that outlives the
\* with block (delete=False)
WriteTemp ==
  /\ pc = "loop"
  /\ idx <= Len(uploaded_files)
  /\ LET path == FreshTemp(SplitExt(CurrentFile.name))
     IN /\ temp_path' = path
        /\ disk' = disk \cup {path}
        /\ run_files' = run_files \cup {path}
  /\ pc' = "extract"
  /\ UNCHANGED <<widgets, idx, pages, images, ocr_i, ocr_result, found, results,
                 context_parts, context, notices, error, called, tmpdirs,
                 run_dirs, extracted, others>>

\* lines 108-109
ExtractDocx ==
  /\ pc = "extract"
  /\ EndsWith(Lower(temp_path), <<".", "d", "o", "c", "x">>)
  /\ LET out == extract_text_from_docx(CurrentFile)
     IN IF out.raised
          THEN Crash(out.value[1]) /\ UNCHANGED pages
          ELSE pages' = out.value /\ pc' = "match" /\ UNCHANGED error
  /\ UNCHANGED <<widgets, idx, temp_path, images, ocr_i, ocr_result, found,
                 results, context_parts, context, notices, called, fsvars,
                 extracted, others>>

\* lines 110-116
ExtractPdf ==
  /\ pc = "extract"
  /\ ~EndsWith(Lower(temp_path), <<".", "d", "o", "c", "x">>)
  /\ EndsWith(Lower(temp_path), <<".", "p", "d", "f">>)
  /\ LET out == extract_text_from_pdf(CurrentFile, HAS_PYMUPDF)
     IN IF out.raised
          THEN Crash(out.value[1]) /\ UNCHANGED <<pages, notices>>
          ELSE IF NoText(out.value)
            THEN /\ notices' = Append(notices, <<"warning", "ocr", temp_path>>)
                 /\ pc' = "ocr_convert"
                 /\ UNCHANGED <<pages, error>>
            ELSE /\ pages' = out.value
                 /\ pc' = "match"
                 /\ UNCHANGED <<notices, error>>
  /\ UNCHANGED <<widgets, idx, temp_path, images, ocr_i, ocr_result, found,
                 results, context_parts, context, called, fsvars, extracted,
                 others>>

\* lines 117-119
ExtractUnsupported ==
  /\ pc = "extract"
  /\ ~EndsWith(Lower(temp_path), <<".", "d", "o", "c", "x">>)
  /\ ~EndsWith(Lower(temp_path), <<".", "p", "d", "f">>)
  /\ notices' = Append(notices, <<"warning", "unsupported", temp_path>>)
  /\ pages' = << <<>> >>
  /\ pc' = "match"
  /\ UNCHANGED <<widgets, idx, temp_path, images, ocr_i, ocr_result, found,
                 results, context_parts, context, error, called, fsvars,
                 extracted, others>>

\* lines 90-96: the pages are rasterized, then the temporary directory is made
OcrConvert ==
  /\ pc = "ocr_convert"
  /\ IF ~CurrentFile.converts
       THEN Crash("convert") /\ UNCHANGED <<images, ocr_i, ocr_result, tmpdirs, run_dirs>>
       ELSE /\ images' = CurrentFile.ocr
            /\ ocr_result' = <<>>
            /\ ocr_i' = 1
            /\ tmpdirs' = tmpdirs \cup {OcrDir}
            /\ run_dirs' = run_dirs \cup {OcrDir}
            /\ pc' = "ocr_page"
            /\ UNCHANGED error
  /\ UNCHANGED <<widgets, idx, temp_path, pages, found, results, context_parts,
                 context, notices, called, disk, run_files, extracted, others>>

\* lines 97-101: one page is saved and recognised; an exception leaves the
\* with block, which removes the directory, and goes on up
OcrPage ==
  /\ pc = "ocr_page"
  /\ ocr_i <= Len(images)
  /\ LET out == OcrText(images[ocr_i])
     IN IF out.raised
          THEN /\ tmpdirs' = tmpdirs \ {OcrDir}
               /\ Crash(out.value[1])
               /\ UNCHANGED <<ocr_i, ocr_result>>
          ELSE /\ ocr_result' = Append(ocr_result, out.value)
               /\ ocr_i' = ocr_i + 1
               /\ UNCHANGED <<pc, error, tmpdirs>>
  /\ UNCHANGED <<widgets, idx, temp_path, pages, images, found, results,
                 context_parts, context, notices, called, disk, run_files,
                 run_dirs, extracted, others>>

\* line 102: the with block ends, the directory goes, the result is returned
OcrReturn ==
  /\ pc = "ocr_page"
  /\ ocr_i > Len(images)
  /\ tmpdirs' = tmpdirs \ {OcrDir}
  /\ pages' = ocr_result
  /\ pc' = "match"
  /\ UNCHANGED <<widgets, idx, temp_path, images, ocr_i, ocr_result, found,
                 results, context_parts, context, notices, error, called,
                 disk, run_files, run_dirs, extracted, others>>

\* lines 308-317: the matcher, the context lines, the result list
Match ==
  /\ pc = "match"
  /\ LET f == search_keyword_in_pages(query, pages)
     IN /\ found' = f
        /\ context_parts' = context_parts \o ContextLines(CurrentFile.name, f)
        /\ results' = IF f # <<>>
                        THEN Append(results, <<CurrentFile.name, f>>)
                        ELSE results
  /\ extracted' = Append(extracted, pages)
  /\ idx' = idx + 1
  /\ pc' = "loop"
  /\ UNCHANGED <<widgets, temp_path, pages, images, ocr_i, ocr_result, context,
                 notices, error, called, fsvars, others>>

\* line 319
Assemble ==
  /\ pc = "loop"
  /\ idx > Len(uploaded_files)
  /\ context' = Join(NL, context_parts)
  /\ pc' = "tabs"
  /\ UNCHANGED <<widgets, idx, temp_path, pages, images, ocr_i, ocr_result, found,
                 results, context_parts, notices, error, called, fsvars,
                 extracted, others>>

\* lines 324-347: the local results are shown and the standards search is
\* called with the query (SpecSearch follows it from there)
ShowSearch ==
  /\ pc = "tabs"
  /\ tab = "Pencarian Dokumen"
  /\ IF uploaded_files # <<>> /\ query # <<>>
       THEN /\ called' = "search_internet_standard"
            /\ notices' = IF results = <<>>
                            THEN Append(notices, <<"warning", "no_results", <<>> >>)
                            ELSE notices
       ELSE UNCHANGED <<called, notices>>
  /\ pc' = "done"
  /\ UNCHANGED <<widgets, idx, temp_path, pages, images, ocr_i, ocr_result, found,
                 results, context_parts, context, error, fsvars, extracted,
                 others>>

\* lines 353-366: the answer adapter is called with the query and the context
\* (SpecAnswer follows it from there)
ShowAnswer ==
  /\ pc = "tabs"
  /\ tab = "Tanya Jawab"
  /\ IF uploaded_files = <<>>
       THEN notices' = Append(notices, <<"info", "upload", <<>> >>) /\ UNCHANGED called
       ELSE IF query = <<>>
         THEN notices' = Append(notices, <<"info", "question", <<>> >>) /\ UNCHANGED called
         ELSE /\ notices' = IF context = <<>>
                              THEN Append(notices, <<"warning", "no_context", <<>> >>)
                              ELSE notices
              /\ called' = "query_openai"
  /\ pc' = "done"
  /\ UNCHANGED <<widgets, idx, temp_path, pages, images, ocr_i, ocr_result, found,
                 results, context_parts, context, error, fsvars, extracted,
                 others>>

Next ==
  \/ Interact
  \/ EnterPipeline
  \/ SkipPipeline
  \/ WriteTemp
  \/ ExtractDocx
  \/ ExtractPdf
  \/ ExtractUnsupported
  \/ OcrConvert
  \/ OcrPage
  \/ OcrReturn
  \/ Match
  \/ Assemble
  \/ ShowSearch
  \/ ShowAnswer

Spec == Init /\ [][Next]_vars


\* ------------------------------------------------------------------------
\* Properties of the script run
\* ------------------------------------------------------------------------

RunOver == pc \in {"done", "crashed"}

\* C3: when an interaction is over, however it ended, every temporary file and
\* every temporary directory it created is gone
C3_TemporaryStorageReleased ==
  RunOver => (run_files \cap disk = {}) /\ (run_dirs \cap tmpdirs = {})

\* the extension is none the extractor knows
Unsupported(doc) ==
  /\ Lower(SplitExt(doc.name)) # <<".", "d", "o", "c", "x">>
  /\ Lower(SplitExt(doc.name)) # <<".", "p", "d", "f">>

\* C5: a document of unknown extension, or one that cannot be opened, gives an
\* empty page result and a warning, and the run goes on to the other documents
C5_UnreadableDocumentNonFatal ==
  /\ pc = "crashed" => error \notin {"docx_open", "pdf_open"}
  /\ \A i \in 1..Len(uploaded_files) :
       (Unsupported(uploaded_files[i]) \/ ~uploaded_files[i].opens) =>
         /\ (pc = "match" /\ idx = i) =>
              /\ pages = << <<>> >>
              /\ \E n \in 1..Len(notices) : notices[n][1] = "warning"
         /\ (RunOver /\ uploaded_files # <<>> /\ query # <<>>) =>
              Len(extracted) = Len(uploaded_files)

\* the current document went down the OCR path
OcrDone == pc = "match" /\ \E n \in 1..Len(notices) :
             notices[n] = <<"warning", "ocr", temp_path>>

\* C9: a PDF without text is read by OCR, one text block per rasterized page;
\* a page on which OCR fails reads as the empty string, the other pages keep
\* their text, and nothing is raised out of the extractor
C9_OcrPageFailureContained ==
  /\ pc = "crashed" => error # "ocr_page"
  /\ OcrDone =>
       /\ Len(pages) = Len(CurrentFile.ocr)
       /\ \A i \in 1..Len(pages) :
            pages[i] = IF CurrentFile.ocr[i].raises THEN <<>> ELSE CurrentFile.ocr[i].text

\* s split at its newlines; no line for the empty string
RECURSIVE SplitNL(_, _)
SplitNL(s, line) ==
  IF s = <<>> THEN <<line>>
  ELSE IF Head(s) = NL THEN <<line>> \o SplitNL(Tail(s), <<>>)
  ELSE SplitNL(Tail(s), Append(line, Head(s)))

LinesOf(s) == IF s = <<>> THEN <<>> ELSE SplitNL(s, <<>>)

\* the lines the matches of the current query on document i stand for
MatchLines(i) ==
  LET f == search_keyword_in_pages(query, extracted[i])
  IN [m \in 1..Len(f) |->
        <<"Dokumen: ">> \o uploaded_files[i].name \o <<", Halaman ">>
          \o Str(f[m][1]) \o <<": ">> \o f[m][2]]

====
